---- MODULE Spec2Model ----
(***************************************************************************)
(* Model of src/vectorDb.py: the two Flask handlers /build_vector_db and   *)
(* /load_vector_db, run by concurrent request threads that share the       *)
(* index bucket, the local directory ./VectorStore and the process-wide    *)
(* llama_index / genai settings.                                           *)
(*                                                                         *)
(* Conventions.  A request thread is a slot r \in Req that serves one      *)
(* request.  A JSON field is None (absent), the empty string, or a         *)
(* non-empty string.  A bucket path f"{course_id}/{name}" is the pair      *)
(* <<course_id, name>>; the doubled slash of f"{upload_prefix}/{rel}"      *)
(* names the same object.  Similarity scores are in hundredths.  A build   *)
(* is identified by the request that runs it; build 0 ran before the       *)
(* process started.  Python locals are dropped when the handler returns.   *)
(***************************************************************************)
EXTENDS Integers, Sequences, FiniteSets, TLC

\* ---- bounds of the model ------------------------------------------------
NumReq == 2
MaxAnsLen == 2
MaxNodes == 1

\* ---- program constants --------------------------------------------------
Threshold == 30
DefaultScore == 100
TopK == 3

Req == 1..NumReq
None == "None"
Courses == {"cA", "cB"}
Keys == {"k1", "k2"}
FieldVals(S) == {None, ""} \cup S
\* names of the files of a persisted index artifact, and of the source files
FileNames == {"docstore.json", "index_store.json"}
SrcNames == {"notes.pdf"}
Chars == {" ", "a"}
Scores == {Threshold - 1, Threshold, DefaultScore}

Truthy(v) == v # None /\ v # ""

\* the query field: JSON null/absent, or a text given as its list of words
NoQuery == [present |-> FALSE, text |-> <<>>]
Queries == {NoQuery, [present |-> TRUE, text |-> <<>>], [present |-> TRUE, text |-> <<"q">>]}
QueryTruthy(q) == q.present /\ q.text # <<>>

VARIABLES
    pc,         \* position of each request thread
    kind,       \* "none" | "build" | "load"
    body,       \* the JSON body of the request
    status,     \* HTTP status of the response (0: none yet)
    msg,        \* what the response carries
    files,      \* local `files` / file_paths: names listed
    todo,       \* names the current for-loop has still to visit
    expanded,   \* local `query` of load_vector_db
    response,   \* response.response of the query engine
    nodes,      \* response.source_nodes, as the sequence of their scores
    path,       \* branch of the decision gate taken
    store,      \* bucket "vector-dbs": path -> build that wrote the object
    localDir,   \* ./VectorStore: name -> request that wrote the file
    settings,   \* process-wide credential configuration
    everStored, \* courses that ever had an object in the bucket
    calls,      \* steps each request has executed
    failed,     \* steps of the request that raised
    touched     \* prefixes of the bucket paths a request removed or uploaded

vars == <<pc, kind, body, status, msg, files, todo, expanded, response, nodes,
          path, store, localDir, settings, everStored, calls, failed, touched>>

locals == <<files, todo, expanded, response, nodes>>
shared == <<store, localDir, settings, everStored>>

\* ---- pure helpers -------------------------------------------------------

RECURSIVE LStrip(_)
LStrip(s) == IF s # <<>> /\ Head(s) = " " THEN LStrip(Tail(s)) ELSE s

RECURSIVE RStrip(_)
RStrip(s) ==
    IF s # <<>> /\ s[Len(s)] = " " THEN RStrip(SubSeq(s, 1, Len(s) - 1)) ELSE s

\* str.strip()
Strip(s) == RStrip(LStrip(s))

\* the synonym table of expand_query, in table order
Synonyms == <<"sample", "instance", "question", "inquiry">>

RECURSIVE Clauses(_)
Clauses(syns) ==
    IF syns = <<>> THEN <<>> ELSE <<"OR", Head(syns)>> \o Clauses(Tail(syns))

\* expand_query raises TypeError on None (None += str)
ExpandRaises(q) == ~q.present
ExpandQuery(q) == q.text \o Clauses(Synonyms)

\* score = getattr(top_node, "score", 1.0), top_node = source_nodes[0] or None
Score(ns) == IF ns # <<>> THEN ns[1] ELSE DefaultScore

\* Gate with the threshold test written <=
GateLe(raw_answer, score) ==
    IF raw_answer = <<>> \/ score <= Threshold THEN "fallback" ELSE "refine"

\* if not raw_answer or score < 0.3
Gate(raw_answer, score) ==
    IF raw_answer = <<>> \/ score < Threshold THEN "fallback" ELSE "refine"

\* UploadPath with a fixed prefix in place of the request's course_id
UploadPathShared(course, rel) == <<"cA", rel>>

\* bucket paths
RemovePath(course, name) == <<course, name>>
UploadPath(course, rel) == <<course, rel>>
DownloadPath(course, name) == <<course, name>>
Prefix(p) == p[1]
\* storage.list(prefix): names of the objects under the prefix
List(prefix) == {p[2] : p \in {q \in DOMAIN store : Prefix(q) = prefix}}

Min(a, b) == IF a < b THEN a ELSE b
SeqsUpTo(S, n) == UNION {[1..k -> S] : k \in 0..n}
Responses == SeqsUpTo(Chars, MaxAnsLen)
Descending(ns) == \A i \in 1..(Len(ns) - 1) : ns[i] >= ns[i + 1]
NodeLists == {ns \in SeqsUpTo(Scores, Min(MaxNodes, TopK)) : Descending(ns)}

EmptyDir == [n \in FileNames |-> 0]
NoSettings == [genai |-> None, llm |-> None, embed |-> None]
OldArtifact == [p \in {<<"cA", n>> : n \in FileNames} |-> 0]
NoObjects == [p \in {} |-> 0]

\* ---- bookkeeping --------------------------------------------------------

Goto(r, l) == pc' = [pc EXCEPT ![r] = l]
Did(r, step) == calls' = [calls EXCEPT ![r] = @ \cup {step}]

\* the handler returns: response sent, locals dropped
Return(r, code, m) ==
    /\ pc' = [pc EXCEPT ![r] = "done"]
    /\ status' = [status EXCEPT ![r] = code]
    /\ msg' = [msg EXCEPT ![r] = m]
    /\ files' = [files EXCEPT ![r] = {}]
    /\ todo' = [todo EXCEPT ![r] = {}]
    /\ expanded' = [expanded EXCEPT ![r] = <<>>]
    /\ response' = [response EXCEPT ![r] = <<>>]
    /\ nodes' = [nodes EXCEPT ![r] = <<>>]

\* except Exception as e: return jsonify({"error": str(e)}), 500
Raise(r, step) ==
    /\ Return(r, 500, "error")
    /\ failed' = [failed EXCEPT ![r] = @ \cup {step}]

\* except Exception as e: print(f"Warning: ...") -- the handler goes on
Caught(r, step) == failed' = [failed EXCEPT ![r] = @ \cup {step}]

Init ==
    /\ pc = [r \in Req |-> "idle"]
    /\ kind = [r \in Req |-> "none"]
    /\ body = [r \in Req |-> [course_id |-> None, api |-> None, query |-> NoQuery]]
    /\ status = [r \in Req |-> 0]
    /\ msg = [r \in Req |-> ""]
    /\ files = [r \in Req |-> {}]
    /\ todo = [r \in Req |-> {}]
    /\ expanded = [r \in Req |-> <<>>]
    /\ response = [r \in Req |-> <<>>]
    /\ nodes = [r \in Req |-> <<>>]
    /\ path = [r \in Req |-> "none"]
    /\ store \in {NoObjects, OldArtifact}
    /\ localDir = EmptyDir
    /\ settings = NoSettings
    /\ everStored = {Prefix(p) : p \in DOMAIN store}
    /\ calls = [r \in Req |-> {}]
    /\ failed = [r \in Req |-> {}]
    /\ touched = [r \in Req |-> {}]

\* ---- configure_settings(api), lines 28-35 -------------------------------

\* llm = Gemini(...); embed_model = GeminiEmbedding(...)
ConfigureCtor(r) ==
    /\ pc[r] = "cfg_ctor"
    /\ Did(r, "configure")
    /\ \/ /\ Goto(r, "cfg_genai")
          /\ UNCHANGED <<status, msg, locals, failed>>
       \/ Raise(r, "configure")
    /\ UNCHANGED <<kind, body, path, shared, touched>>

\* genai.configure(api_key=api)
ConfigureGenai(r) ==
    /\ pc[r] = "cfg_genai"
    /\ settings' = [settings EXCEPT !.genai = body[r].api]
    /\ Goto(r, "cfg_llm")
    /\ UNCHANGED <<kind, body, status, msg, locals, path, store, localDir,
                   everStored, calls, failed, touched>>

\* Settings.llm = llm
ConfigureLlm(r) ==
    /\ pc[r] = "cfg_llm"
    /\ settings' = [settings EXCEPT !.llm = body[r].api]
    /\ Goto(r, "cfg_embed")
    /\ UNCHANGED <<kind, body, status, msg, locals, path, store, localDir,
                   everStored, calls, failed, touched>>

\* ConfigureEmbed that keeps an embed model already configured
ConfigureEmbedOnce(r) ==
    /\ pc[r] = "cfg_embed"
    /\ settings' = IF settings.embed = None
                      THEN [settings EXCEPT !.embed = body[r].api]
                      ELSE settings
    /\ Goto(r, IF kind[r] = "build" THEN "b_construct" ELSE "l_reset")
    /\ UNCHANGED <<kind, body, status, msg, locals, path, store, localDir,
                   everStored, calls, failed, touched>>

\* Settings.embed_model = embed_model (chunk_size, chunk_overlap are fixed)
ConfigureEmbed(r) ==
    /\ pc[r] = "cfg_embed"
    /\ settings' = [settings EXCEPT !.embed = body[r].api]
    /\ Goto(r, IF kind[r] = "build" THEN "b_construct" ELSE "l_reset")
    /\ UNCHANGED <<kind, body, status, msg, locals, path, store, localDir,
                   everStored, calls, failed, touched>>

\* ---- /build_vector_db, lines 38-114 -------------------------------------

\* a POST /build_vector_db arrives with a JSON object as body
BuildRequest(r) ==
    /\ pc[r] = "idle"
    /\ \E c \in FieldVals(Courses), k \in FieldVals(Keys) :
          body' = [body EXCEPT ![r] = [course_id |-> c, api |-> k, query |-> NoQuery]]
    /\ kind' = [kind EXCEPT ![r] = "build"]
    /\ Goto(r, "b_validate")
    /\ UNCHANGED <<status, msg, locals, path, shared, calls, failed, touched>>

\* lines 41-47
BuildValidate(r) ==
    /\ pc[r] = "b_validate"
    /\ \/ /\ ~Truthy(body[r].course_id)
          /\ Return(r, 400, "error")
       \/ /\ Truthy(body[r].course_id)
          /\ ~Truthy(body[r].api)
          /\ Return(r, 400, "error")
       \/ /\ Truthy(body[r].course_id)
          /\ Truthy(body[r].api)
          /\ Goto(r, "b_list_src")
          /\ UNCHANGED <<status, msg, locals>>
    /\ UNCHANGED <<kind, body, path, shared, calls, failed, touched>>

\* BuildListSource without the empty-listing check
BuildListSourceNoCheck(r) ==
    /\ pc[r] = "b_list_src"
    /\ Did(r, "list_src")
    /\ \/ Raise(r, "list_src")
       \/ /\ \E fs \in SUBSET SrcNames :
                /\ files' = [files EXCEPT ![r] = fs]
                /\ todo' = [todo EXCEPT ![r] = fs]
          /\ Goto(r, "b_download")
          /\ UNCHANGED <<status, msg, expanded, response, nodes, failed>>
    /\ UNCHANGED <<kind, body, path, shared, touched>>

\* lines 49-52: list the course's source files in "course-materials"
BuildListSource(r) ==
    /\ pc[r] = "b_list_src"
    /\ Did(r, "list_src")
    /\ \/ Raise(r, "list_src")
       \/ /\ Return(r, 404, "error")
          /\ UNCHANGED failed
       \/ /\ \E fs \in (SUBSET SrcNames) \ {{}} :
                /\ files' = [files EXCEPT ![r] = fs]
                /\ todo' = [todo EXCEPT ![r] = fs]
          /\ Goto(r, "b_download")
          /\ UNCHANGED <<status, msg, expanded, response, nodes, failed>>
    /\ UNCHANGED <<kind, body, path, shared, touched>>

\* lines 56-61: download each source file into the temporary directory
BuildDownload(r) ==
    /\ pc[r] = "b_download"
    /\ todo[r] # {}
    /\ Did(r, "download_src")
    /\ \/ Raise(r, "download_src")
       \/ /\ \E f \in todo[r] : todo' = [todo EXCEPT ![r] = @ \ {f}]
          /\ UNCHANGED <<pc, status, msg, files, expanded, response, nodes, failed>>
    /\ UNCHANGED <<kind, body, path, shared, touched>>

\* line 63: the loop is over, configure_settings(api) is entered
BuildConfigure(r) ==
    /\ pc[r] = "b_download"
    /\ todo[r] = {}
    /\ Goto(r, "cfg_ctor")
    /\ UNCHANGED <<kind, body, status, msg, locals, path, shared, calls, failed, touched>>

\* lines 64-66: read the documents and build the index (embedding provider)
BuildConstruct(r) ==
    /\ pc[r] = "b_construct"
    /\ Did(r, "construct")
    /\ \/ Raise(r, "construct")
       \/ /\ Goto(r, "b_persist")
          /\ UNCHANGED <<status, msg, locals, failed>>
    /\ UNCHANGED <<kind, body, path, shared, touched>>

\* BuildPersist whose failure is caught and logged like the delete's
BuildPersistSwallow(r) ==
    /\ pc[r] = "b_persist"
    /\ Did(r, "persist")
    /\ \/ Caught(r, "persist")
       \/ UNCHANGED failed
    /\ Goto(r, "b_list_idx")
    /\ UNCHANGED <<status, msg, locals, kind, body, path, shared, touched>>

\* lines 70-72: persist the index under the temporary directory
BuildPersist(r) ==
    /\ pc[r] = "b_persist"
    /\ Did(r, "persist")
    /\ \/ Raise(r, "persist")
       \/ /\ Goto(r, "b_list_idx")
          /\ UNCHANGED <<status, msg, locals, failed>>
    /\ UNCHANGED <<kind, body, path, shared, touched>>

\* lines 81-86, 91-92: list the prior artifact; a raise is caught and logged
BuildListIndex(r) ==
    /\ pc[r] = "b_list_idx"
    /\ Did(r, "list_idx")
    /\ \/ /\ Caught(r, "list_idx")
          /\ todo' = [todo EXCEPT ![r] = FileNames]
          /\ Goto(r, "b_upload")
          /\ UNCHANGED files
       \/ /\ List(body[r].course_id) # {}
          /\ files' = [files EXCEPT ![r] = List(body[r].course_id)]
          /\ Goto(r, "b_remove")
          /\ UNCHANGED <<todo, failed>>
       \/ /\ List(body[r].course_id) = {}
          /\ files' = [files EXCEPT ![r] = {}]
          /\ todo' = [todo EXCEPT ![r] = FileNames]
          /\ Goto(r, "b_upload")
          /\ UNCHANGED failed
    /\ UNCHANGED <<kind, body, status, msg, expanded, response, nodes, path,
                   shared, touched>>

\* lines 87-88, 91-92: remove the listed paths; a raise is caught and logged
BuildRemove(r) ==
    /\ pc[r] = "b_remove"
    /\ Did(r, "remove")
    /\ LET paths == {RemovePath(body[r].course_id, n) : n \in files[r]} IN
          /\ touched' = [touched EXCEPT ![r] = @ \cup {Prefix(p) : p \in paths}]
          /\ \/ /\ Caught(r, "remove")
                /\ UNCHANGED store
             \/ /\ store' = [p \in DOMAIN store \ paths |-> store[p]]
                /\ UNCHANGED failed
    /\ todo' = [todo EXCEPT ![r] = FileNames]
    /\ Goto(r, "b_upload")
    /\ UNCHANGED <<kind, body, status, msg, files, expanded, response, nodes,
                   path, localDir, settings, everStored>>

\* lines 98-105: upload one file of the new artifact; an upload to a path
\* that holds an object raises (no upsert is asked for)
BuildUpload(r) ==
    /\ pc[r] = "b_upload"
    /\ todo[r] # {}
    /\ Did(r, "upload")
    /\ \E f \in todo[r] :
          LET p == UploadPath(body[r].course_id, f) IN
             /\ touched' = [touched EXCEPT ![r] = @ \cup {Prefix(p)}]
             /\ \/ /\ Raise(r, "upload")
                   /\ UNCHANGED <<store, everStored>>
                \/ /\ p \notin DOMAIN store
                   /\ store' = [q \in DOMAIN store \cup {p} |->
                                   IF q = p THEN r ELSE store[q]]
                   /\ everStored' = everStored \cup {Prefix(p)}
                   /\ todo' = [todo EXCEPT ![r] = @ \ {f}]
                   /\ UNCHANGED <<pc, status, msg, files, expanded, response,
                                  nodes, failed>>
    /\ UNCHANGED <<kind, body, path, localDir, settings>>

\* line 111
BuildRespond(r) ==
    /\ pc[r] = "b_upload"
    /\ todo[r] = {}
    /\ Return(r, 200, "built")
    /\ UNCHANGED <<kind, body, path, shared, calls, failed, touched>>

\* ---- /load_vector_db, lines 129-194 -------------------------------------

\* a POST /load_vector_db arrives with a JSON object as body
LoadRequest(r) ==
    /\ pc[r] = "idle"
    /\ \E c \in FieldVals(Courses), k \in FieldVals(Keys), q \in Queries :
          body' = [body EXCEPT ![r] = [course_id |-> c, api |-> k, query |-> q]]
    /\ kind' = [kind EXCEPT ![r] = "load"]
    /\ Goto(r, "l_expand")
    /\ UNCHANGED <<status, msg, locals, path, shared, calls, failed, touched>>

\* lines 131-133: expand_query(raw_query) runs before the validation and
\* outside the try block; its TypeError reaches Flask, which answers 500
LoadExpand(r) ==
    /\ pc[r] = "l_expand"
    /\ \/ /\ ExpandRaises(body[r].query)
          /\ Return(r, 500, "unhandled")
       \/ /\ ~ExpandRaises(body[r].query)
          /\ expanded' = [expanded EXCEPT ![r] = ExpandQuery(body[r].query)]
          /\ Goto(r, "l_validate")
          /\ UNCHANGED <<status, msg, files, todo, response, nodes>>
    /\ UNCHANGED <<kind, body, path, shared, calls, failed, touched>>

\* lines 135-136
LoadValidate(r) ==
    /\ pc[r] = "l_validate"
    /\ \/ /\ ~(Truthy(body[r].api) /\ Truthy(body[r].course_id)
                 /\ QueryTruthy(body[r].query))
          /\ Return(r, 400, "error")
       \/ /\ Truthy(body[r].api)
          /\ Truthy(body[r].course_id)
          /\ QueryTruthy(body[r].query)
          /\ Goto(r, "cfg_ctor")
          /\ UNCHANGED <<status, msg, locals>>
    /\ UNCHANGED <<kind, body, path, shared, calls, failed, touched>>

\* lines 142-144: rmtree + makedirs of the shared ./VectorStore
LoadReset(r) ==
    /\ pc[r] = "l_reset"
    /\ Did(r, "reset")
    /\ \/ /\ Raise(r, "reset")
          /\ UNCHANGED localDir
       \/ /\ localDir' = EmptyDir
          /\ Goto(r, "l_list")
          /\ UNCHANGED <<status, msg, locals, failed>>
    /\ UNCHANGED <<kind, body, path, store, settings, everStored, touched>>

\* LoadList without the empty-listing check
LoadListNoCheck(r) ==
    /\ pc[r] = "l_list"
    /\ Did(r, "list_idx")
    /\ \/ Raise(r, "list_idx")
       \/ /\ files' = [files EXCEPT ![r] = List(body[r].course_id)]
          /\ todo' = [todo EXCEPT ![r] = List(body[r].course_id)]
          /\ Goto(r, "l_download")
          /\ UNCHANGED <<status, msg, expanded, response, nodes, failed>>
    /\ UNCHANGED <<kind, body, path, shared, touched>>

\* lines 147-150: list the course's artifact in "vector-dbs"
LoadList(r) ==
    /\ pc[r] = "l_list"
    /\ Did(r, "list_idx")
    /\ \/ Raise(r, "list_idx")
       \/ /\ List(body[r].course_id) = {}
          /\ Return(r, 404, "error")
          /\ UNCHANGED failed
       \/ /\ List(body[r].course_id) # {}
          /\ files' = [files EXCEPT ![r] = List(body[r].course_id)]
          /\ todo' = [todo EXCEPT ![r] = List(body[r].course_id)]
          /\ Goto(r, "l_download")
          /\ UNCHANGED <<status, msg, expanded, response, nodes, failed>>
    /\ UNCHANGED <<kind, body, path, shared, touched>>

\* LoadDownload that skips a file whose download raises
LoadDownloadSkip(r) ==
    /\ pc[r] = "l_download"
    /\ todo[r] # {}
    /\ Did(r, "download")
    /\ \E f \in todo[r] :
          /\ todo' = [todo EXCEPT ![r] = @ \ {f}]
          /\ \/ /\ Caught(r, "download")
                /\ UNCHANGED localDir
             \/ /\ DownloadPath(body[r].course_id, f) \in DOMAIN store
                /\ localDir' = [localDir EXCEPT ![f] = r]
                /\ UNCHANGED failed
    /\ UNCHANGED <<pc, status, msg, files, expanded, response, nodes>>
    /\ UNCHANGED <<kind, body, path, store, settings, everStored, touched>>

\* lines 152-157: download one listed file into ./VectorStore
LoadDownload(r) ==
    /\ pc[r] = "l_download"
    /\ todo[r] # {}
    /\ Did(r, "download")
    /\ \E f \in todo[r] :
          \/ /\ Raise(r, "download")
             /\ UNCHANGED localDir
          \/ /\ DownloadPath(body[r].course_id, f) \in DOMAIN store
             /\ localDir' = [localDir EXCEPT ![f] = r]
             /\ todo' = [todo EXCEPT ![r] = @ \ {f}]
             /\ UNCHANGED <<pc, status, msg, files, expanded, response, nodes, failed>>
    /\ UNCHANGED <<kind, body, path, store, settings, everStored, touched>>

\* lines 160-162: load the index from ./VectorStore; a missing store file raises
LoadIndex(r) ==
    /\ pc[r] = "l_download"
    /\ todo[r] = {}
    /\ Did(r, "load_index")
    /\ \/ Raise(r, "load_index")
       \/ /\ \A n \in FileNames : localDir[n] # 0
          /\ Goto(r, "l_query")
          /\ UNCHANGED <<status, msg, locals, failed>>
    /\ UNCHANGED <<kind, body, path, shared, touched>>

\* line 163: query_engine.query(query)
LoadQuery(r) ==
    /\ pc[r] = "l_query"
    /\ Did(r, "query")
    /\ \/ Raise(r, "query")
       \/ /\ \E a \in Responses, ns \in NodeLists :
                /\ response' = [response EXCEPT ![r] = a]
                /\ nodes' = [nodes EXCEPT ![r] = ns]
          /\ Goto(r, "l_gate")
          /\ UNCHANGED <<status, msg, files, todo, expanded, failed>>
    /\ UNCHANGED <<kind, body, path, shared, touched>>

\* lines 165-172: the decision gate
LoadGate(r) ==
    /\ pc[r] = "l_gate"
    /\ LET raw_answer == Strip(response[r])
           score == Score(nodes[r])
       IN /\ path' = [path EXCEPT ![r] = Gate(raw_answer, score)]
          /\ Goto(r, IF Gate(raw_answer, score) = "fallback"
                        THEN "l_fallback" ELSE "l_refine")
    /\ UNCHANGED <<kind, body, status, msg, locals, shared, calls, failed, touched>>

\* lines 173-181: complete(raw_query)
LoadFallback(r) ==
    /\ pc[r] = "l_fallback"
    /\ Did(r, "complete")
    /\ \/ Raise(r, "complete")
       \/ /\ Return(r, 200, "fallback")
          /\ UNCHANGED failed
    /\ UNCHANGED <<kind, body, path, shared, touched>>

\* lines 184-191: complete(refined_prompt)
LoadRefine(r) ==
    /\ pc[r] = "l_refine"
    /\ Did(r, "complete")
    /\ \/ Raise(r, "complete")
       \/ /\ Return(r, 200, "refined")
          /\ UNCHANGED failed
    /\ UNCHANGED <<kind, body, path, shared, touched>>

Load(r) ==
    \/ LoadRequest(r)
    \/ LoadExpand(r)
    \/ LoadValidate(r)
    \/ LoadReset(r)
    \/ LoadList(r)
    \/ LoadDownload(r)
    \/ LoadIndex(r)
    \/ LoadQuery(r)
    \/ LoadGate(r)
    \/ LoadFallback(r)
    \/ LoadRefine(r)

Build(r) ==
    \/ BuildRequest(r)
    \/ BuildValidate(r)
    \/ BuildListSource(r)
    \/ BuildDownload(r)
    \/ BuildConfigure(r)
    \/ BuildConstruct(r)
    \/ BuildPersist(r)
    \/ BuildListIndex(r)
    \/ BuildRemove(r)
    \/ BuildUpload(r)
    \/ BuildRespond(r)

Configure(r) ==
    \/ ConfigureCtor(r)
    \/ ConfigureGenai(r)
    \/ ConfigureLlm(r)
    \/ ConfigureEmbed(r)

Next == \E r \in Req : Build(r) \/ Configure(r) \/ Load(r)

Spec == Init /\ [][Next]_vars

\* ---- properties ---------------------------------------------------------

IsBuild(r) == kind[r] = "build"
IsLoad(r) == kind[r] = "load"
Done(r) == pc[r] = "done"
LoadFieldsPresent(r) ==
    Truthy(body[r].api) /\ Truthy(body[r].course_id) /\ QueryTruthy(body[r].query)
\* a text that is empty or holds whitespace only
Blank(s) == \A i \in 1..Len(s) : s[i] = " "
\* the steps of a build that come after the local persist
AfterPersist == {"list_idx", "remove", "upload"}
\* the objects of the bucket all belong to one build, per course
OneBuild(c) ==
    \A p, q \in DOMAIN store : Prefix(p) = c /\ Prefix(q) = c => store[p] = store[q]

\* C1: a /load_vector_db request with any of api_key, course_id, query
\* missing (absent or empty) ends in 400 with an {error} body.
C1_MissingFieldIs400 ==
    \A r \in Req :
        IsLoad(r) /\ Done(r) /\ ~LoadFieldsPresent(r)
            => status[r] = 400 /\ msg[r] = "error"

\* C2: once retrieval has returned, the fallback path is taken exactly when
\* the answer is blank or the top score (1.0 without a source match) is
\* strictly below 0.3, the refine path otherwise, and a 200 response carries
\* the answer of the path taken.
C2_GateDecides ==
    \A r \in Req :
        LET score == IF Len(nodes[r]) = 0 THEN DefaultScore ELSE nodes[r][1]
            low == Blank(response[r]) \/ score < Threshold
        IN /\ pc[r] = "l_fallback" => low /\ path[r] = "fallback"
           /\ pc[r] = "l_refine" => ~low /\ path[r] = "refine"
           /\ "query" \notin calls[r] \/ pc[r] = "l_gate" => path[r] = "none"
           /\ IsLoad(r) /\ status[r] = 200 =>
                 \/ path[r] = "fallback" /\ msg[r] = "fallback"
                 \/ path[r] = "refine" /\ msg[r] = "refined"
           /\ "complete" \in calls[r] => path[r] # "none"

\* C2 witness: a non-blank answer scored exactly 0.3 on the refine path while
\* a whitespace-only answer with the default score is on the fallback path
C2_Witness ==
    \E r, q \in Req :
        /\ pc[r] = "l_refine" /\ nodes[r] = <<Threshold>> /\ response[r] = <<" ", "a">>
        /\ pc[q] = "l_fallback" /\ nodes[q] = <<>> /\ response[q] = <<" ">>

C4_OneArtifactPerCourse == \A c \in Courses : OneBuild(c)

\* C5: a build removes and uploads under its own course prefix only, and
\* every object a build wrote lies under that build's course.
C5_BuildStaysInOwnPrefix ==
    /\ \A r \in Req : touched[r] \subseteq {body[r].course_id}
    /\ \A r \in Req : IsLoad(r) => touched[r] = {}
    /\ \A p \in DOMAIN store :
          store[p] # 0 => IsBuild(store[p]) /\ body[store[p]].course_id = Prefix(p)

\* C5 witness: two builds for different courses are uploading together, one
\* of them after removing a prior artifact
C5_Witness ==
    \E r, q \in Req :
        /\ body[r].course_id = "cA" /\ body[q].course_id = "cB"
        /\ pc[r] = "b_upload" /\ pc[q] = "b_upload"
        /\ "remove" \in calls[r] /\ failed[r] = {}
        /\ \E n \in FileNames : <<"cB", n>> \in DOMAIN store
        /\ \E n \in FileNames : <<"cA", n>> \in DOMAIN store

C7_EmptyListingStops ==
    \A r \in Req :
        IsBuild(r) =>
            /\ status[r] = 404 =>
                  calls[r] = {"list_src"} /\ touched[r] = {} /\ msg[r] = "error"
            /\ pc[r] \in {"b_download", "cfg_ctor", "cfg_genai", "cfg_llm",
                          "cfg_embed", "b_construct", "b_persist", "b_list_idx"}
                  => files[r] # {}

\* C7 witness: a 404 build beside a build that went on to upload
C7_Witness ==
    \E r, q \in Req :
        /\ IsBuild(r) /\ status[r] = 404
        /\ IsBuild(q) /\ "upload" \in calls[q]

C9_LoadsOwnFiles ==
    \A r \in Req :
        IsLoad(r) /\ pc[r] = "l_download" /\ todo[r] = {}
            => localDir = [n \in FileNames |-> IF n \in files[r] THEN r ELSE 0]

\* C10: a build that has not persisted its new index has made no list,
\* remove or upload on the index bucket and wrote no object of it.
C10_NoStoreCallBeforePersist ==
    \A r \in Req :
        IsBuild(r) /\ ("persist" \notin calls[r] \/ "persist" \in failed[r])
            => /\ calls[r] \cap AfterPersist = {}
               /\ touched[r] = {}
               /\ \A p \in DOMAIN store : store[p] # r

\* C10 witness: a build aborted by a raise of the persist, the prior
\* artifact of its course still whole
C10_Witness ==
    \E r \in Req :
        /\ IsBuild(r) /\ "persist" \in failed[r] /\ status[r] = 500
        /\ body[r].course_id = "cA"
        /\ \A n \in FileNames : <<"cA", n>> \in DOMAIN store /\ store[<<"cA", n>>] = 0
====
